---- MODULE Spec2Model ----
(***************************************************************************)
(* State-machine model of the Streamlit sales pipeline (app.py,            *)
(* data_processing.py, ui_helpers.py): the session state, the sidebar and  *)
(* step-card handlers, and the three data transforms.                      *)
(*                                                                         *)
(* A DataFrame is a record [cols, rows]: cols is the sequence of column    *)
(* labels (labels may repeat after a rename), rows is the sequence of      *)
(* rows, each a sequence of cells aligned with cols.  Every cell is a      *)
(* string; the string NaN stands for a missing value.                      *)
(***************************************************************************)
EXTENDS Integers, Sequences, FiniteSets, TLC

VARIABLES session_state, last, clicks

vars == <<session_state, last, clicks>>

\* ------------------------------------------------------------------------
\* Bounds of the model
\* ------------------------------------------------------------------------
\* A mapping draft differs from the default selections in at most MaxEdits
\* select boxes.
MaxEdits == 2

\* Number of button clicks and widget changes explored in one session.
MaxClicks == 5

\* Largest number of rows of the datasets given to step 2 on its own.
MaxDropRows == 20

\* Largest number of credentials in the list of API keys.
MaxKeys == 3

\* ------------------------------------------------------------------------
\* Program constants
\* ------------------------------------------------------------------------
NaN == "NaN"

SKIP == "SKIP"

\* app.py:22-27, in dict (insertion) order
REQUIRED_COLS ==
  <<"Date", "Amount", "Qty", "Category", "Size", "ship-state", "ship-city",
    "Fulfilment", "Status", "Order ID", "B2B">>

CRITICAL_COLS == <<"Date", "Amount", "Order ID">>

DefaultThreshold == 10

LastStep == 7

Steps == 1..LastStep

\* pd.DataFrame()
EmptyDF == [cols |-> <<>>, rows |-> <<>>]

\* ------------------------------------------------------------------------
\* Sequence helpers
\* ------------------------------------------------------------------------
Range(s) == {s[i] : i \in DOMAIN s}

RECURSIVE KeepAt(_, _, _)
\* the subsequence of s at the positions in K, from position i on
KeepAt(s, K, i) ==
  IF i > Len(s) THEN <<>>
  ELSE (IF i \in K THEN <<s[i]>> ELSE <<>>) \o KeepAt(s, K, i + 1)

\* dict item assignment d[k] = v
DictSet(d, k, v) == [x \in (DOMAIN d) \cup {k} |-> IF x = k THEN v ELSE d[x]]

\* ------------------------------------------------------------------------
\* DataFrame primitives
\* ------------------------------------------------------------------------
NRows(df) == Len(df.rows)

ColIdx(df, name) == {j \in DOMAIN df.cols : df.cols[j] = name}

HasCol(df, name) == ColIdx(df, name) # {}

\* df.isnull().sum() for the column at position j
NullCount(df, j) == Cardinality({i \in DOMAIN df.rows : df.rows[i][j] = NaN})

\* df.drop(columns=..., errors='ignore') / column selection by position
SelectCols(df, K) ==
  [cols |-> KeepAt(df.cols, K, 1),
   rows |-> [i \in DOMAIN df.rows |-> KeepAt(df.rows[i], K, 1)]]

\* boolean row indexing
SelectRows(df, R) == [cols |-> df.cols, rows |-> KeepAt(df.rows, R, 1)]

\* df.dropna(subset=[name])
DropNaRows(df, name) ==
  SelectRows(df, {i \in DOMAIN df.rows :
                    \A j \in ColIdx(df, name) : df.rows[i][j] # NaN})

\* df[name] = vals : overwrite the column(s) labelled name, or append one;
\* vals is aligned with the rows
AssignCol(df, name, vals) ==
  IF HasCol(df, name)
  THEN [cols |-> df.cols,
        rows |-> [i \in DOMAIN df.rows |->
                    [j \in DOMAIN df.cols |->
                       IF df.cols[j] = name THEN vals[i] ELSE df.rows[i][j]]]]
  ELSE [cols |-> Append(df.cols, name),
        rows |-> [i \in DOMAIN df.rows |-> Append(df.rows[i], vals[i])]]

\* the Series df[name], for a label that occurs once
Series(df, name) ==
  LET j == CHOOSE k \in ColIdx(df, name) : TRUE
  IN  [i \in DOMAIN df.rows |-> df.rows[i][j]]

\* ------------------------------------------------------------------------
\* Step 1: inspect_missing_values (data_processing.py:30-52)
\* ------------------------------------------------------------------------
\* (count / len) * 100 rounded to two decimals, in hundredths of a percent
Round2Pct(count, n) == IF n = 0 THEN 0 ELSE (count * 20000 + n) \div (2 * n)

RECURSIVE SortByCountDesc(_, _)
\* sort_values('Missing Count', ascending=False): positions in J ordered by
\* descending null count, ties in column order
SortByCountDesc(df, J) ==
  IF J = {} THEN <<>>
  ELSE LET j == CHOOSE a \in J : \A b \in J :
                   \/ NullCount(df, a) > NullCount(df, b)
                   \/ NullCount(df, a) = NullCount(df, b) /\ a <= b
       IN  <<j>> \o SortByCountDesc(df, J \ {j})

\* step 1 handing back the sample of rows with a missing value
inspect_missing_values_ReturnsSample(df) ==
  LET missing_mask == {i \in DOMAIN df.rows :
                         \E j \in DOMAIN df.cols : df.rows[i][j] = NaN}
  IN  [ok |-> TRUE,
       df |-> SelectRows(df, missing_mask),
       summary |-> [note |-> <<"Found", 0, Cardinality(missing_mask)>>]]

inspect_missing_values(df) ==
  LET withNull == {j \in DOMAIN df.cols : NullCount(df, j) > 0}
      order == SortByCountDesc(df, withNull)
      missing_summary ==
        [k \in DOMAIN order |->
           <<df.cols[order[k]], NullCount(df, order[k]),
             Round2Pct(NullCount(df, order[k]), NRows(df))>>]
      missing_mask == {i \in DOMAIN df.rows :
                         \E j \in DOMAIN df.cols : df.rows[i][j] = NaN}
      sample_missing_rows == SelectRows(df, {i \in missing_mask :
                         Cardinality({k \in missing_mask : k <= i}) <= 100})
  IN  [ok |-> TRUE,
       df |-> df,
       summary |-> [missing_summary |-> missing_summary,
                    sample_missing_rows |-> sample_missing_rows,
                    note |-> <<"Found", Len(missing_summary),
                               Cardinality(missing_mask)>>]]

\* ------------------------------------------------------------------------
\* Step 2: drop_missing_columns (data_processing.py:56-82)
\* ------------------------------------------------------------------------
\* missing_percentage is a float64 Series.  A positive float64 is modelled
\* as [limbs, exp]: the MantissaBits - 1 bits after its leading 1 as limbs of
\* LimbBits bits, most significant first, and the power of two of the
\* leading 1; operations round to nearest, ties to even.
MantissaBits == 53

LimbBits == 13

FracLimbs == (MantissaBits - 1) \div LimbBits

Pow2(k) ==
  <<1, 2, 4, 8, 16, 32, 64, 128, 256, 512, 1024, 2048, 4096, 8192>>[k + 1]

LimbMax == Pow2(LimbBits) - 1

\* limbs + 1, wrapping to zero when every limb is full
IncLimbs(limbs) ==
  [i \in DOMAIN limbs |->
     IF \A j \in (i + 1)..Len(limbs) : limbs[j] = LimbMax
     THEN (limbs[i] + 1) % Pow2(LimbBits)
     ELSE limbs[i]]

\* the float64 one unit in the last place above [limbs, exp]
FloatCarry(limbs, exp) ==
  [limbs |-> IncLimbs(limbs),
   exp |-> IF \A i \in DOMAIN limbs : limbs[i] = LimbMax THEN exp + 1
           ELSE exp]

\* the float64 nearest to [limbs, exp] plus rest2 / (2 * unit) units in the
\* last place, for 0 <= rest2 < 2 * unit
RoundToDouble(limbs, exp, rest2, unit) ==
  IF \/ rest2 > unit
     \/ rest2 = unit /\ limbs[Len(limbs)] % 2 = 1
  THEN FloatCarry(limbs, exp)
  ELSE [limbs |-> limbs, exp |-> exp]

RECURSIVE FloatNormalise(_, _, _)
\* the dividend doubled until n <= r, and the power of two of the quotient's
\* first bit
FloatNormalise(r, n, e) ==
  IF r >= n THEN [r |-> r, e |-> e] ELSE FloatNormalise(2 * r, n, e - 1)

RECURSIVE DivLimbs(_, _, _)
\* long division of r / n for r < n: the limbs of the fraction that the
\* mantissa holds, and the remainder
DivLimbs(r, n, limbs) ==
  IF Len(limbs) = FracLimbs THEN [limbs |-> limbs, r |-> r]
  ELSE DivLimbs((r * Pow2(LimbBits)) % n, n,
                Append(limbs, (r * Pow2(LimbBits)) \div n))

FloatQuotient(q, n, e) == RoundToDouble(q.limbs, e, 2 * q.r, n)

FloatDivFrom(p, n) == FloatQuotient(DivLimbs(p.r - n, n, <<>>), n, p.e)

\* count / n in float64, for 0 < count <= n
FloatDiv(count, n) == FloatDivFrom(FloatNormalise(count, n, 0), n)

RECURSIVE MulLimbs(_, _, _, _)
\* limbs * m from limb i towards the first, with carry c; the product has
\* one limb more
MulLimbs(limbs, m, i, c) ==
  IF i = 0 THEN <<c>>
  ELSE Append(MulLimbs(limbs, m, i - 1, (limbs[i] * m + c) \div Pow2(LimbBits)),
              (limbs[i] * m + c) % Pow2(LimbBits))

\* the number of bits after the leading 1 of a limb
TopBits(top) ==
  CHOOSE s \in 0..(LimbBits - 1) : Pow2(s) <= top /\ top < Pow2(s + 1)

\* the limbs after the leading 1 of d, whose first limb has s bits after
\* its leading 1
ShiftLimbs(d, s) ==
  [i \in 1..FracLimbs |->
     (d[i] % Pow2(s)) * Pow2(LimbBits - s) + d[i + 1] \div Pow2(s)]

FloatProduct(d, s, exp) ==
  RoundToDouble(ShiftLimbs(d, s), exp + s, 2 * (d[Len(d)] % Pow2(s)), Pow2(s))

\* the product's limbs from the one that holds its leading 1
ProductLimbs(limbs, m) == Tail(MulLimbs(limbs, m, Len(limbs), 0))

FloatShifted(d, exp) == FloatProduct(d, TopBits(d[1]), exp)

\* x * 100 in float64
FloatTimes100(x) == FloatShifted(ProductLimbs(<<1>> \o x.limbs, 100), x.exp)

\* the integer part of x, for 0 <= x.exp <= LimbBits
FloatFloor(x) == Pow2(x.exp) + x.limbs[1] \div Pow2(LimbBits - x.exp)

FloatHasFraction(x) ==
  \/ x.limbs[1] % Pow2(LimbBits - x.exp) # 0
  \/ \E i \in 2..Len(x.limbs) : x.limbs[i] # 0

\* x > t in float64 for an integer t (exactly representable)
FloatGreater(x, t) ==
  IF x.exp < 0 THEN t <= 0
  ELSE \/ FloatFloor(x) > t
       \/ FloatFloor(x) = t /\ FloatHasFraction(x)

\* (count / len) * 100 > threshold; with len = 0 the quotient is NaN and the
\* comparison is false
ExceedsThreshold(count, n, threshold) ==
  /\ n > 0
  /\ IF count = 0 THEN 0 > threshold
     ELSE FloatGreater(FloatTimes100(FloatDiv(count, n)), threshold)

drop_missing_columns(df, threshold) ==
  LET rows_before == NRows(df)
      dropIdx == {j \in DOMAIN df.cols :
                    ExceedsThreshold(NullCount(df, j), NRows(df), threshold)}
      cols_to_drop == KeepAt(df.cols, dropIdx, 1)
      dropped_summary ==
        [k \in DOMAIN cols_to_drop |->
           LET j == CHOOSE a \in dropIdx :
                      Cardinality({b \in dropIdx : b <= a}) = k
           IN  <<cols_to_drop[k], Round2Pct(NullCount(df, j), NRows(df))>>]
      \* drop is by label
      df_new == SelectCols(df, {j \in DOMAIN df.cols :
                                  df.cols[j] \notin Range(cols_to_drop)})
  IN  [ok |-> TRUE,
       df |-> df_new,
       summary |-> [dropped_summary |-> dropped_summary,
                    note |-> IF cols_to_drop = <<>>
                             THEN <<"No columns exceeded", threshold, 0>>
                             ELSE <<"Columns dropped", threshold,
                                    Len(cols_to_drop)>>,
                    rows_before |-> rows_before,
                    rows_after |-> NRows(df_new)]]

\* ------------------------------------------------------------------------
\* Step 3: convert_date_and_derive (data_processing.py:86-120)
\* ------------------------------------------------------------------------
\* the value of a failed conversion
NaT == [y |-> 0, m |-> 0, d |-> 0]

\* The month, day and two-digit-year fields that the pattern %m-%d-%y finds
\* in a text cell; <<>> when the text does not match the pattern.  The texts
\* are those of the sample files.
strptime_fields(text) ==
  CASE text = "04-30-22" -> <<4, 30, 22>>
    [] text = "05-01-22" -> <<5, 1, 22>>
    [] text = "02-30-22" -> <<2, 30, 22>>
    [] text = "12-31-99" -> <<12, 31, 99>>
    [] OTHER -> <<>>

IsLeap(y) == (y % 4 = 0 /\ y % 100 # 0) \/ y % 400 = 0

DaysInMonth(y, m) ==
  IF m = 2 THEN (IF IsLeap(y) THEN 29 ELSE 28)
  ELSE IF m \in {4, 6, 9, 11} THEN 30 ELSE 31

\* pd.to_datetime(cell, format='%m-%d-%y', errors='coerce')
to_datetime(text) ==
  LET f == strptime_fields(text)
  IN  IF f = <<>> THEN NaT
      ELSE LET y == IF f[3] <= 68 THEN 2000 + f[3] ELSE 1900 + f[3]
           IN  IF f[1] \in 1..12 /\ f[2] \in 1..DaysInMonth(y, f[1])
               THEN [y |-> y, m |-> f[1], d |-> f[2]]
               ELSE NaT

Pad2(n) == IF n < 10 THEN "0" \o ToString(n) ELSE ToString(n)

\* the cell holding a datetime value
DateCell(dt) ==
  IF dt = NaT THEN NaN
  ELSE ToString(dt.y) \o "-" \o Pad2(dt.m) \o "-" \o Pad2(dt.d)

\* .dt.to_period('M').astype(str)
MonthCell(dt) == ToString(dt.y) \o "-" \o Pad2(dt.m)

\* .dt.year
YearCell(dt) == ToString(dt.y)

\* .dt.day_name()
DayNameCell(dt) ==
  LET t == <<0, 3, 2, 5, 0, 3, 5, 1, 4, 6, 2, 4>>
      y == IF dt.m < 3 THEN dt.y - 1 ELSE dt.y
      w == (y + (y \div 4) - (y \div 100) + (y \div 400) + t[dt.m] + dt.d) % 7
  IN  <<"Sunday", "Monday", "Tuesday", "Wednesday", "Thursday", "Friday",
        "Saturday">>[w + 1]

\* .map({True: True, False: False, 'Yes': True, 'No': False})
B2BCell(v) ==
  CASE v \in {"True", "Yes"} -> "True"
    [] v \in {"False", "No"} -> "False"
    [] OTHER -> NaN

\* df.rename(columns={v: k for k, v in mapping.items()}): a column labelled
\* with a canonical name v of the mapping is relabelled with the source k
\* that the mapping sends to v
RenameByReverseMap(df, mapping) ==
  LET reverse_keys == {mapping[k] : k \in DOMAIN mapping}
      reverse_map(v) == CHOOSE k \in DOMAIN mapping : mapping[k] = v
  IN  [cols |-> [j \in DOMAIN df.cols |->
                   IF df.cols[j] \in reverse_keys THEN reverse_map(df.cols[j])
                   ELSE df.cols[j]],
       rows |-> df.rows]

\* line 97
DropLegacyCols(df) ==
  SelectCols(df, {j \in DOMAIN df.cols : df.cols[j] \notin {"New", "PendingS"}})

\* lines 100-101
DropNullAmount(df) ==
  IF HasCol(df, "Amount") THEN DropNaRows(df, "Amount") ELSE df

\* pd.to_datetime(df['Date'], ...) as a sequence aligned with the rows
DatetimeSeries(df) ==
  [i \in DOMAIN df.rows |-> to_datetime(Series(df, "Date")[i])]

\* line 104: a frame with its Date column converted, and the datetimes
WithDates(df, dt) ==
  [df |-> AssignCol(df, "Date", [i \in DOMAIN dt |-> DateCell(dt[i])]),
   dt |-> dt]

\* line 105
DropNaT(p) ==
  [df |-> SelectRows(p.df, {i \in DOMAIN p.dt : p.dt[i] # NaT}),
   dt |-> KeepAt(p.dt, {i \in DOMAIN p.dt : p.dt[i] # NaT}, 1)]

\* lines 108-109, for a frame whose label B2B does not raise
MapB2B(p) ==
  [df |-> IF Cardinality(ColIdx(p.df, "B2B")) = 1
          THEN AssignCol(p.df, "B2B",
                         [i \in DOMAIN p.df.rows |->
                            B2BCell(Series(p.df, "B2B")[i])])
          ELSE p.df,
   dt |-> p.dt]

\* lines 112-114
DeriveColumns(p) ==
  AssignCol(
    AssignCol(
      AssignCol(p.df, "Month", [i \in DOMAIN p.dt |-> MonthCell(p.dt[i])]),
      "Year", [i \in DOMAIN p.dt |-> YearCell(p.dt[i])]),
    "DayOfWeek", [i \in DOMAIN p.dt |-> DayNameCell(p.dt[i])])

\* lines 107-116, on the frame with its dates converted and NaT rows dropped
ConvertFromB2B(p) ==
  \* df['B2B'] is a DataFrame when the label repeats: its map returns a
  \* copy of an empty frame and otherwise raises, a dict not being callable
  IF Cardinality(ColIdx(p.df, "B2B")) > 1 /\ NRows(p.df) > 0
  THEN [ok |-> FALSE, err |-> "map"]
  ELSE [ok |-> TRUE, df |-> DeriveColumns(MapB2B(p)),
        summary |-> [note |-> "converted"]]

\* lines 103-116, on the frame with the null-Amount rows dropped
ConvertFromDate(df) ==
  \* df['Date'] is a DataFrame when the label repeats: to_datetime cannot
  \* assemble a date from it
  IF Cardinality(ColIdx(df, "Date")) > 1
  THEN [ok |-> FALSE, err |-> "to_datetime"]
  ELSE ConvertFromB2B(DropNaT(WithDates(df, DatetimeSeries(df))))

\* lines 95-120, on the renamed frame
ConvertRenamed(df) ==
  IF ~HasCol(df, "Date")
  THEN [ok |-> TRUE, df |-> df, summary |-> [note |-> "skipped"]]
  ELSE ConvertFromDate(DropNullAmount(DropLegacyCols(df)))

convert_date_and_derive(df, mapping) ==
  ConvertRenamed(RenameByReverseMap(df, mapping))

\* ------------------------------------------------------------------------
\* Session state (app.py:30-44)
\* ------------------------------------------------------------------------
init_state ==
  [current_step |-> 0,
   df_raw |-> EmptyDF,
   df_current |-> EmptyDF,
   snapshots |-> <<>>,
   column_mapping |-> <<>>,
   data_loaded |-> FALSE,
   mapped |-> FALSE,
   missing_threshold |-> DefaultThreshold,
   step_output |-> <<>>,
   step_summaries |-> <<>>,
   show_custom_dashboard |-> FALSE]

\* 'key' in d
Has(d, key) == key \in DOMAIN d

\* d.get(key) == value
GetIs(d, key, value) == Has(d, key) /\ d[key] = value

\* make_snapshot that stores nothing
make_snapshot_Skipped(s, df, step) == s

\* ui_helpers.py:10-12
make_snapshot(s, df, step) == [s EXCEPT !.snapshots = DictSet(@, step, df)]

\* ------------------------------------------------------------------------
\* run_step (app.py:49-79)
\* ------------------------------------------------------------------------
\* the try block's dispatch on step_num, lines 57-64
StepTransform(s, step_num) ==
  CASE step_num = 1 -> inspect_missing_values(s.df_current)
    [] step_num = 2 -> drop_missing_columns(s.df_current, s.missing_threshold)
    [] step_num = 3 -> convert_date_and_derive(s.df_current, s.column_mapping)
    [] OTHER -> [ok |-> TRUE, df |-> s.df_current,
                 summary |-> [data_ready |-> TRUE]]

\* lines 66-75 with the snapshot taken of the step's input
StepSucceeded_SnapshotsInput(s, new_step, r, run_all_flag) ==
  LET s1 == [s EXCEPT !.step_summaries = DictSet(@, new_step, r.summary)]
      s2 == make_snapshot(s1, s.df_current, new_step)
  IN  [s2 EXCEPT !.df_current = r.df,
                 !.current_step = new_step,
                 !.step_output = IF run_all_flag
                                 THEN [run_all_output |-> new_step]
                                 ELSE <<>>]

\* lines 66-75 with the snapshots after new_step discarded
StepSucceeded_DropsLater(s, new_step, r, run_all_flag) ==
  LET s1 == [s EXCEPT !.step_summaries = DictSet(@, new_step, r.summary)]
      s2 == make_snapshot(s1, r.df, new_step)
  IN  [s2 EXCEPT !.snapshots = [k \in {j \in DOMAIN @ : j <= new_step}
                                  |-> @[k]],
                 !.df_current = r.df,
                 !.current_step = new_step,
                 !.step_output = IF run_all_flag
                                 THEN [run_all_output |-> new_step]
                                 ELSE <<>>]

\* lines 66-75
StepSucceeded(s, new_step, r, run_all_flag) ==
  LET s1 == [s EXCEPT !.step_summaries = DictSet(@, new_step, r.summary)]
      s2 == make_snapshot(s1, r.df, new_step)
  IN  [s2 EXCEPT !.df_current = r.df,
                 !.current_step = new_step,
                 !.step_output = IF run_all_flag
                                 THEN [run_all_output |-> new_step]
                                 ELSE <<>>]

\* lines 77-79 with the pointer advanced although the transform raised
StepFailed_Advances(s, r) ==
  [s EXCEPT !.step_output = [error |-> r.err],
            !.current_step = s.current_step + 1]

\* lines 77-79
StepFailed(s, r) == [s EXCEPT !.step_output = [error |-> r.err]]

\* the try statement on the transform's result r
StepOutcome(s, step_num, r, run_all_flag) ==
  IF r.ok THEN StepSucceeded(s, step_num, r, run_all_flag)
  ELSE StepFailed(s, r)

run_step(s, step_num, run_all_flag) ==
  StepOutcome(s, step_num, StepTransform(s, step_num), run_all_flag)

\* ------------------------------------------------------------------------
\* run_all_steps (app.py:81-91)
\* ------------------------------------------------------------------------
\* lines 86-87 without the reset of the working DataFrame
ResetToRaw_KeepsCurrent(s) == make_snapshot(s, s.df_current, 0)

\* lines 86-87
ResetToRaw(s) == make_snapshot([s EXCEPT !.df_current = s.df_raw], s.df_raw, 0)

RECURSIVE RunLoop(_, _)
\* for step in range(1, 8): run_step(step, run_all_flag=True)
RunLoop(s, step) ==
  IF step > LastStep THEN s
  ELSE RunLoop(run_step(s, step, TRUE), step + 1)

\* run_all_steps without the check of the mapped flag
run_all_steps_Unguarded(s) == RunLoop(ResetToRaw(s), 1)

\* run_all_steps going on from the step pointer, without the reset
run_all_steps_FromPointer(s) ==
  IF ~s.mapped THEN s ELSE RunLoop(s, s.current_step + 1)

run_all_steps(s) == IF ~s.mapped THEN s ELSE RunLoop(ResetToRaw(s), 1)

\* a run_step call as its caller sees it: whether the transform raised, and
\* the step output the call returns with
Call(s, step_num, run_all_flag) ==
  [step |-> step_num,
   ok |-> StepTransform(s, step_num).ok,
   output |-> run_step(s, step_num, run_all_flag).step_output]

RECURSIVE LoopCalls(_, _)
\* the run_step calls the loop makes
LoopCalls(s, step) ==
  IF step > LastStep THEN <<>>
  ELSE <<Call(s, step, TRUE)>>
         \o LoopCalls(run_step(s, step, TRUE), step + 1)

\* ------------------------------------------------------------------------
\* undo_last_step (app.py:93-101)
\* ------------------------------------------------------------------------
\* the guard prev_step >= 0 off by one
UndoOutcome_OffByOne(s) ==
  IF s.current_step - 1 < -1 THEN "warning"
  ELSE IF ~Has(s.snapshots, s.current_step - 1) THEN "KeyError"
  ELSE "ok"

UndoOutcome(s) ==
  IF s.current_step - 1 < 0 THEN "warning"
  ELSE IF ~Has(s.snapshots, s.current_step - 1) THEN "KeyError"
  ELSE "ok"

\* undo that moves the pointer back and leaves the working DataFrame
undo_last_step_KeepsDataset(s) ==
  LET prev_step == s.current_step - 1
  IN  IF UndoOutcome(s) = "ok"
      THEN [s EXCEPT !.current_step = prev_step,
                     !.step_output = [undo |-> TRUE, step |-> prev_step],
                     !.show_custom_dashboard = FALSE]
      ELSE s

undo_last_step(s) ==
  LET prev_step == s.current_step - 1
  IN  IF UndoOutcome(s) = "ok"
      THEN [s EXCEPT !.df_current = s.snapshots[prev_step],
                     !.current_step = prev_step,
                     !.step_output = [undo |-> TRUE, step |-> prev_step],
                     !.show_custom_dashboard = FALSE]
      ELSE s

\* ------------------------------------------------------------------------
\* Raw load (data_processing.py:8-26, app.py:108-120)
\* ------------------------------------------------------------------------
\* The CSV files a session may load.  The first uses the canonical headers,
\* the second has its own headers and an all-null column.
SampleFiles ==
  <<[cols |-> <<"Date", "Amount", "Order ID", "B2B">>,
     rows |-> <<<<"04-30-22", "100", "o1", "Yes">>,
                <<"02-30-22", "200", "o2", "No">>,
                <<"05-01-22", NaN, "o3", NaN>>>>],
    [cols |-> <<"order_date", "Amount", "Order ID", "New">>,
     rows |-> <<<<"12-31-99", "100", "o1", NaN>>,
                <<"2022-05-01", NaN, "o2", NaN>>>>]>>

\* load_raw_data: a file read in full, or an empty frame when the default
\* file is not found
LoadResults == Range(SampleFiles) \cup {EmptyDF}

\* df.empty
IsEmpty(df) == Len(df.cols) = 0 \/ Len(df.rows) = 0

\* the load handler without the reset of the step pointer
LoadRawData_KeepsPointer(s, df_raw) ==
  IF ~IsEmpty(df_raw)
  THEN LET s1 == [s EXCEPT !.df_raw = df_raw, !.df_current = df_raw]
           s2 == make_snapshot(s1, df_raw, 0)
       IN  [s2 EXCEPT !.data_loaded = TRUE,
                      !.mapped = FALSE,
                      !.step_output = [load |-> TRUE]]
  ELSE s

LoadRawData(s, df_raw) ==
  IF ~IsEmpty(df_raw)
  THEN LET s1 == [s EXCEPT !.df_raw = df_raw, !.df_current = df_raw]
           s2 == make_snapshot(s1, df_raw, 0)
       IN  [s2 EXCEPT !.data_loaded = TRUE,
                      !.mapped = FALSE,
                      !.current_step = 0,
                      !.step_output = [load |-> TRUE]]
  ELSE s

\* ------------------------------------------------------------------------
\* Schema mapping (app.py:273-303)
\* ------------------------------------------------------------------------
\* line 279
CurrentCols(df_raw) == {SKIP} \cup Range(df_raw.cols)

\* line 286: the preselected option of each select box
DefaultDraft(df_raw) ==
  [std_name \in Range(REQUIRED_COLS) |->
     IF std_name \in CurrentCols(df_raw) THEN std_name ELSE SKIP]

\* the select boxes a user changes in this model: the critical names, one
\* canonical name the sample files lack, and the optional flag
EditableNames == {"Date", "Amount", "Order ID", "Qty", "B2B"}

\* the selections a user can have made: one option per canonical name,
\* changed from the preselection in at most MaxEdits boxes
Drafts(df_raw) ==
  LET names == Range(REQUIRED_COLS)
      edited == {E \in SUBSET EditableNames : Cardinality(E) <= MaxEdits}
      edits == UNION {[E -> CurrentCols(df_raw)] : E \in edited}
  IN  {[std_name \in names |->
          IF std_name \in DOMAIN e THEN e[std_name]
          ELSE DefaultDraft(df_raw)[std_name]] : e \in edits}

RECURSIVE BuildColMap_KeyedByCanonical(_, _, _)
\* the loop with the dict keyed the other way round: col_map[std_name] =
\* selected
BuildColMap_KeyedByCanonical(draft, col_map, i) ==
  IF i > Len(REQUIRED_COLS) THEN col_map
  ELSE LET std_name == REQUIRED_COLS[i]
           selected == draft[std_name]
       IN  BuildColMap_KeyedByCanonical(draft,
                       IF selected # SKIP
                       THEN DictSet(col_map, std_name, selected)
                       ELSE col_map,
                       i + 1)

RECURSIVE BuildColMap(_, _, _)
\* lines 281-292: col_map[selected] = std_name, in REQUIRED_COLS order
BuildColMap(draft, col_map, i) ==
  IF i > Len(REQUIRED_COLS) THEN col_map
  ELSE LET std_name == REQUIRED_COLS[i]
           selected == draft[std_name]
       IN  BuildColMap(draft,
                       IF selected # SKIP
                       THEN DictSet(col_map, selected, std_name)
                       ELSE col_map,
                       i + 1)

\* line 295
MissingCritical(col_map) ==
  {c \in Range(CRITICAL_COLS) : c \notin Range(col_map)}

\* the critical names a draft leaves on SKIP
Unselected(draft) == {c \in Range(CRITICAL_COLS) : draft[c] = SKIP}

\* what a draft comes to: the critical names left on SKIP, and the col_map
\* the loop builds if it is accepted
ResultOf(draft, col_map) ==
  [unselected |-> Unselected(draft),
   accepted |-> MissingCritical(col_map) = {},
   col_map |-> IF MissingCritical(col_map) = {} THEN col_map ELSE <<>>]

DraftResult(draft) == ResultOf(draft, BuildColMap(draft, <<>>, 1))

\* one draft for every result the drafts of a file come to
DraftChoices ==
  [df_raw \in Range(SampleFiles) |->
     LET P == {<<DraftResult(d), d>> : d \in Drafts(df_raw)}
     IN  {(CHOOSE p \in P : p[1] = r)[2] : r \in {q[1] : q \in P}}]

\* the drafts offered for the loaded file
DraftsFor(df_raw) ==
  IF df_raw \in DOMAIN DraftChoices THEN DraftChoices[df_raw] ELSE {}

\* lines 294-303
ApplyColMap(s, col_map) ==
  IF MissingCritical(col_map) # {} THEN s
  ELSE [s EXCEPT !.column_mapping = col_map, !.mapped = TRUE]

ApplyMapping(s, draft) == ApplyColMap(s, BuildColMap(draft, <<>>, 1))

\* ------------------------------------------------------------------------
\* What the page shows (app.py:104, 122, 150-161, 255-306)
\* ------------------------------------------------------------------------
\* line 104: the pipeline controls of the sidebar
SidebarControls(s) == ~s.show_custom_dashboard

\* line 255 without the test of the step pointer
DashboardView_FlagOnly(s) == s.show_custom_dashboard

\* line 255
DashboardView(s) == s.show_custom_dashboard /\ s.current_step >= LastStep

\* line 273
MappingStage(s) == ~DashboardView(s) /\ s.data_loaded /\ ~s.mapped

\* line 306
StepCards(s) == ~DashboardView(s) /\ s.data_loaded /\ s.mapped

\* lines 151-157: the run button of a step card
is_executed(s, step_num) == s.current_step >= step_num

is_run_all_output(s, step_num) ==
  GetIs(s.step_output, "run_all_output", step_num)

RunButton(s, step_num) ==
  StepCards(s) /\ (~is_executed(s, step_num) \/ is_run_all_output(s, step_num))

\* the slider's range, lines 124-127
Thresholds == {10, 50}

\* lines 158-159: the click runs the callback run_step(step_num), then the
\* script reruns; where the button is drawn again it reports the click
RerunAfterClick(s, step_num) ==
  IF RunButton(s, step_num)
  THEN [s EXCEPT !.step_output = [run_all_output |-> step_num]]
  ELSE s

ClickRunStep(s, step_num) ==
  RerunAfterClick(run_step(s, step_num, FALSE), step_num)

\* ------------------------------------------------------------------------
\* The state machine
\* ------------------------------------------------------------------------
\* last records the handler that ran last: its name and argument, how it
\* ended, the run_step calls it made and the working DataFrame it started
\* from.  clicks counts the handlers run.
Event(op, arg, outcome, calls, before) ==
  [op |-> op, arg |-> arg, outcome |-> outcome, calls |-> calls,
   df_before |-> before.df_current]

\* one more handler runs
Tick == clicks < MaxClicks /\ clicks' = clicks + 1

Init ==
  /\ session_state = init_state
  /\ last = Event("init", 0, "ok", <<>>, init_state)
  /\ clicks = 0

\* "Load Raw Data from File (Step 0)"
Load(df_raw) ==
  /\ Tick
  /\ SidebarControls(session_state)
  /\ session_state' = LoadRawData(session_state, df_raw)
  /\ last' = Event("load", 0, IF IsEmpty(df_raw) THEN "error" ELSE "ok",
                   <<>>, session_state)

\* "Apply Mapping and Proceed to Steps 1-7"
ConfirmMapping(draft) ==
  /\ Tick
  /\ MappingStage(session_state)
  /\ session_state' = ApplyMapping(session_state, draft)
  /\ last' = Event("apply_mapping", Unselected(draft),
                   IF DraftResult(draft).accepted THEN "ok" ELSE "rejected",
                   <<>>, session_state)

\* the run button of step card step_num
StepClick(step_num) ==
  /\ Tick
  /\ RunButton(session_state, step_num)
  /\ session_state' = ClickRunStep(session_state, step_num)
  /\ last' = Event("run_step", step_num,
                   IF StepTransform(session_state, step_num).ok THEN "ok"
                   ELSE "error",
                   <<Call(session_state, step_num, FALSE)>>, session_state)

\* "Run All Steps (1-7)"
RunAll ==
  /\ Tick
  /\ SidebarControls(session_state)
  /\ session_state.data_loaded
  /\ session_state' = run_all_steps(session_state)
  /\ last' = IF ~session_state.mapped
             THEN Event("run_all", 0, "error", <<>>, session_state)
             ELSE Event("run_all", 0, "ok",
                        LoopCalls(ResetToRaw(session_state), 1),
                        session_state)

\* "Undo Last Step"
Undo ==
  /\ Tick
  /\ SidebarControls(session_state)
  /\ session_state.data_loaded
  /\ session_state' = undo_last_step(session_state)
  /\ last' = Event("undo", 0, UndoOutcome(session_state), <<>>,
                   session_state)

\* "Missing Value % Threshold (Step 2)"
SetThreshold(t) ==
  /\ Tick
  /\ SidebarControls(session_state)
  /\ session_state.data_loaded
  /\ t # session_state.missing_threshold
  /\ session_state' = [session_state EXCEPT !.missing_threshold = t]
  /\ last' = Event("set_threshold", t, "ok", <<>>, session_state)

\* "See More Customised View", app.py:161-167, 240-250
OpenDashboard ==
  /\ Tick
  /\ StepCards(session_state)
  /\ is_executed(session_state, LastStep)
       \/ is_run_all_output(session_state, LastStep)
  /\ ~Has(session_state.step_output, "error")
  /\ session_state' = [session_state EXCEPT !.show_custom_dashboard = TRUE]
  /\ last' = Event("open_dashboard", 0, "ok", <<>>, session_state)

\* "Back to Analysis Pipeline", app.py:145-147
BackToPipeline ==
  /\ Tick
  /\ session_state.show_custom_dashboard
  /\ session_state' = [session_state EXCEPT !.show_custom_dashboard = FALSE]
  /\ last' = Event("back_to_pipeline", 0, "ok", <<>>, session_state)

Next ==
  \/ \E df_raw \in LoadResults : Load(df_raw)
  \/ \E draft \in DraftsFor(session_state.df_raw) : ConfirmMapping(draft)
  \/ \E step_num \in Steps : StepClick(step_num)
  \/ RunAll
  \/ Undo
  \/ \E t \in Thresholds : SetThreshold(t)
  \/ OpenDashboard
  \/ BackToPipeline

Spec == Init /\ [][Next]_vars

\* ------------------------------------------------------------------------
\* Step 2 over datasets and thresholds
\* ------------------------------------------------------------------------
\* A file of n orders: the Amount of the first amount_nulls orders and the
\* B2B flag of the first order are missing.
DropFrame(n, amount_nulls) ==
  [cols |-> <<"Date", "Amount", "Order ID", "B2B">>,
   rows |-> [i \in 1..n |->
               <<"04-30-22",
                 IF i <= amount_nulls THEN NaN ELSE "100",
                 "o1",
                 IF i = 1 THEN NaN ELSE "No">>]]

DropInputs ==
  {DropFrame(n, amount_nulls) : n \in 1..MaxDropRows,
                               amount_nulls \in 0..MaxDropRows}

\* the slider's range, app.py:124-127
SliderRange == 0..100

\* the mapping confirmed with every select box left on its preselection
DefaultMapping(df_raw) == BuildColMap(DefaultDraft(df_raw), <<>>, 1)

\* the session right after a raw load of df_raw and the confirmation of
\* mapping, with the threshold slider at threshold
FreshSession(df_raw, mapping, threshold) ==
  [LoadRawData([init_state EXCEPT !.missing_threshold = threshold], df_raw)
     EXCEPT !.column_mapping = mapping, !.mapped = TRUE]

\* a file is loaded, its default mapping confirmed and the slider set
InitDrop ==
  /\ \E df_raw \in DropInputs, threshold \in SliderRange :
       session_state = FreshSession(df_raw, DefaultMapping(df_raw), threshold)
  /\ last = Event("apply_mapping", {}, "ok", <<>>, init_state)
  /\ clicks = 0

\* the run button of step 2
NextDrop == StepClick(2)

SpecDrop == InitDrop /\ [][NextDrop]_vars

\* ------------------------------------------------------------------------
\* The custom dashboard (custom_dashboard.py:96-172, app.py:255-257)
\* ------------------------------------------------------------------------
\* The year, month and day of a cell written by DateCell; <<>> for any other
\* cell.  The cells are those that the dates of the files convert to.
DateKey(cell) ==
  CASE cell = "2022-04-30" -> <<2022, 4, 30>>
    [] cell = "2022-05-01" -> <<2022, 5, 1>>
    [] cell = "1999-12-31" -> <<1999, 12, 31>>
    [] OTHER -> <<>>

\* the order of dates
DateNum(key) == key[1] * 10000 + key[2] * 100 + key[3]

\* the Date column has the datetime dtype: step 3 has converted it
IsDatetime(df) ==
  \A i \in DOMAIN df.rows : \A j \in ColIdx(df, "Date") :
    DateKey(df.rows[i][j]) # <<>>

\* the distinct values of a column, df[name].unique()
Unique(df, name) ==
  {df.rows[i][j] : i \in DOMAIN df.rows, j \in ColIdx(df, name)}

\* df[df[name].isin(values)]
IsIn(df, name, values) ==
  SelectRows(df, {i \in DOMAIN df.rows :
                    \A j \in ColIdx(df, name) : df.rows[i][j] \in values})

\* The frames of one rendering: the session's working DataFrame object, the
\* local df, and whether the local df is that same object.
\* line 110: df = df_initial.copy()
DashCopy(s) ==
  [session |-> s, df |-> s.df_current, aliased |-> FALSE, outcome |-> "ok"]

\* df['Date'] = ... writes into the object df names
DashSetDate(env, vals) ==
  [env EXCEPT !.df = AssignCol(env.df, "Date", vals),
              !.session.df_current =
                 IF env.aliased THEN AssignCol(env.df, "Date", vals) ELSE @]

\* df = df[...] binds df to a new frame
DashRebind(env, df) == [env EXCEPT !.df = df, !.aliased = FALSE]

\* lines 116-129
DashDateFilter(env, f) ==
  IF ~HasCol(env.df, "Date") THEN env
  ELSE IF ~IsDatetime(env.df)
  THEN [env EXCEPT !.outcome = "AttributeError"]
  ELSE DashRebind(
         env,
         SelectRows(env.df,
                    {i \in DOMAIN env.df.rows :
                       \A j \in ColIdx(env.df, "Date") :
                         /\ DateNum(DateKey(env.df.rows[i][j])) >= DateNum(f.start)
                         /\ DateNum(DateKey(env.df.rows[i][j])) <= DateNum(f.end)}))

\* line 117, then the filter
DashDates(env, f) ==
  IF HasCol(env.df, "Date") /\ IsDatetime(env.df)
  THEN DashDateFilter(
         DashSetDate(env, [i \in DOMAIN env.df.rows |->
                             DateCell([y |-> DateKey(Series(env.df, "Date")[i])[1],
                                       m |-> DateKey(Series(env.df, "Date")[i])[2],
                                       d |-> DateKey(Series(env.df, "Date")[i])[3]])]),
         f)
  ELSE DashDateFilter(env, f)

\* lines 133-146
DashCategorySize(env, f) ==
  IF env.outcome = "ok" /\ HasCol(env.df, "Category") /\ HasCol(env.df, "Size")
  THEN DashRebind(env, IsIn(IsIn(env.df, "Category", f.cats), "Size", f.sizes))
  ELSE env

\* lines 149-156
DashFulfilment(env, f) ==
  IF env.outcome = "ok" /\ HasCol(env.df, "Fulfilment")
  THEN DashRebind(env, IsIn(env.df, "Fulfilment", f.fulfill_sel))
  ELSE env

\* lines 158-161
DashB2B(env, f) ==
  IF env.outcome = "ok" /\ HasCol(env.df, "B2B") /\ f.b2b_only
  THEN DashRebind(env, IsIn(env.df, "B2B", {"True"}))
  ELSE env

\* st.session_state.df_current = df
DashWriteBack(env) == [env EXCEPT !.session.df_current = env.df]

\* the rendering that stores the filtered frame as the working DataFrame
render_custom_dashboard_WritesBack(s, f) ==
  DashWriteBack(
    DashB2B(DashFulfilment(DashCategorySize(DashDates(DashCopy(s), f), f), f), f))

\* render_custom_dashboard(st.session_state.df_current, ...) under the
\* filter selections f
render_custom_dashboard(s, f) ==
  DashB2B(DashFulfilment(DashCategorySize(DashDates(DashCopy(s), f), f), f), f)

\* the selections the filter widgets offer for a frame
DashFilters(df) ==
  [start : IF HasCol(df, "Date") /\ IsDatetime(df) /\ NRows(df) > 0
           THEN {DateKey(c) : c \in Unique(df, "Date")} ELSE {<<>>},
   end : IF HasCol(df, "Date") /\ IsDatetime(df) /\ NRows(df) > 0
         THEN {DateKey(c) : c \in Unique(df, "Date")} ELSE {<<>>},
   cats : SUBSET Unique(df, "Category"),
   sizes : SUBSET Unique(df, "Size"),
   fulfill_sel : SUBSET Unique(df, "Fulfilment"),
   b2b_only : IF HasCol(df, "B2B") THEN BOOLEAN ELSE {FALSE}]

\* a change of a filter widget: the script reruns and draws the dashboard
RenderDashboard(f) ==
  /\ Tick
  /\ DashboardView(session_state)
  /\ f.start # <<>> => DateNum(f.start) <= DateNum(f.end)
  /\ session_state' = render_custom_dashboard(session_state, f).session
  /\ last' = Event("render_dashboard",
                   [filters |-> f,
                    shown |-> render_custom_dashboard(session_state, f).df],
                   render_custom_dashboard(session_state, f).outcome,
                   <<>>, session_state)

\* The files of the dashboard sessions: one with the columns every filter
\* reads, and the sample files.
DashFile ==
  [cols |-> <<"Date", "Amount", "Order ID", "Category", "Size", "Fulfilment",
              "B2B">>,
   rows |-> <<<<"04-30-22", "100", "o1", "Set", "M", "Amazon", "Yes">>,
              <<"05-01-22", "200", "o2", "kurta", "M", "Amazon", "Yes">>,
              <<"05-01-22", "300", "o3", "Set", "M", "Amazon", "No">>>>]

\* a file with the mapping confirmed for it
DashSessions ==
  {FreshSession(DashFile, DefaultMapping(DashFile), DefaultThreshold),
   FreshSession(SampleFiles[1], DefaultMapping(SampleFiles[1]),
                DefaultThreshold),
   FreshSession(SampleFiles[2],
                BuildColMap([DefaultDraft(SampleFiles[2])
                               EXCEPT !["Date"] = "order_date"], <<>>, 1),
                DefaultThreshold)}

InitDash ==
  /\ session_state \in DashSessions
  /\ last = Event("apply_mapping", {}, "ok", <<>>, init_state)
  /\ clicks = 0

NextDash ==
  \/ RunAll
  \/ StepClick(LastStep)
  \/ OpenDashboard
  \/ \E f \in DashFilters(session_state.df_current) : RenderDashboard(f)
  \/ BackToPipeline

SpecDash == InitDash /\ [][NextDash]_vars

\* ------------------------------------------------------------------------
\* The AI call (ai_kpi.py:10-49, app.py:43-44)
\* ------------------------------------------------------------------------
None == "None"

\* The credential lists st.secrets can hold: a key is good when
\* genai.configure and GenerativeModel accept it and bad when they raise.
\* The list is empty when the secret is missing (lines 12-13).
KeyLists ==
  UNION {[1..n -> {"good", "bad"}] : n \in 0..MaxKeys}

\* the part of the session the AI functions use, with the module's API_KEYS
ai_init_state(keys) ==
  [API_KEYS |-> keys, api_key_index |-> 0, gemini_model |-> None]

\* lines 23-27 succeed for the key at the 0-based position index
Configures(s, index) ==
  index < Len(s.API_KEYS) /\ s.API_KEYS[index + 1] = "good"

\* the model configured with the key at position index
GenerativeModel(index) == "model" \o ToString(index)

\* the keys tried so far, with the key at index when the list has it
Tried(s, tried, index) ==
  IF index < Len(s.API_KEYS) THEN Append(tried, index) ELSE tried

RECURSIVE get_gemini_model(_, _)
\* the session after the call, the model returned (None for no model), the
\* positions of the keys tried, and the exception that escaped, if any
get_gemini_model(s, tried) ==
  IF s.gemini_model # None
  THEN [s |-> s, model |-> s.gemini_model, tried |-> tried, raised |-> None]
  ELSE IF Configures(s, s.api_key_index)
  THEN [s |-> [s EXCEPT !.gemini_model = GenerativeModel(s.api_key_index)],
        model |-> GenerativeModel(s.api_key_index),
        tried |-> Append(tried, s.api_key_index),
        raised |-> None]
  \* line 29: (index + 1) % len(API_KEYS)
  ELSE IF Len(s.API_KEYS) = 0
  THEN [s |-> s, model |-> None, tried |-> tried,
        raised |-> "ZeroDivisionError"]
  ELSE IF (s.api_key_index + 1) % Len(s.API_KEYS) = 0
  THEN [s |-> [s EXCEPT !.api_key_index = 0],
        model |-> None,
        tried |-> Tried(s, tried, s.api_key_index),
        raised |-> None]
  ELSE get_gemini_model(
         [s EXCEPT !.api_key_index = (s.api_key_index + 1) % Len(s.API_KEYS),
                   !.gemini_model = None],
         Tried(s, tried, s.api_key_index))

ConfigureFailed == "Error: Could not configure AI model. All API keys failed."

RequestFailed ==
  "Error: AI request failed (Quota or API issue). Please wait or check keys."

\* lines 40-49 on the result r of get_gemini_model; request_ok tells whether
\* generate_content answers
ResponseFrom(r, request_ok) ==
  [s |-> r.s,
   tried |-> r.tried,
   raised |-> r.raised,
   text |-> IF r.raised # None THEN None
            ELSE IF r.model = None THEN ConfigureFailed
            ELSE IF request_ok THEN "response.text"
            ELSE RequestFailed]

get_gemini_response(s, request_ok) ==
  ResponseFrom(get_gemini_model(s, <<>>), request_ok)

InitAI ==
  /\ \E keys \in KeyLists : session_state = ai_init_state(keys)
  /\ last = [op |-> "init", arg |-> TRUE, outcome |-> "ok", calls |-> <<>>,
             text |-> None]
  /\ clicks = 0

\* an AI button: get_gemini_response(prompt)
AskAI(request_ok) ==
  /\ Tick
  /\ session_state' = get_gemini_response(session_state, request_ok).s
  /\ last' = [op |-> "get_gemini_response",
              arg |-> request_ok,
              outcome |-> IF get_gemini_response(session_state, request_ok).raised
                               = None
                          THEN "returned" ELSE "raised",
              calls |-> get_gemini_response(session_state, request_ok).tried,
              text |-> get_gemini_response(session_state, request_ok).text]

NextAI == \E request_ok \in BOOLEAN : AskAI(request_ok)

SpecAI == InitAI /\ [][NextAI]_vars

\* ------------------------------------------------------------------------
\* Object identity of the DataFrames
\* ------------------------------------------------------------------------
\* A DataFrame value says nothing about which Python object holds it.  The
\* names that can hold a DataFrame are the session keys df_raw and
\* df_current, the entries of the snapshots dict, and the handlers' locals.
\* aliases is the set of pairs {x, y} of names bound to the same object.
RawName == <<"df_raw", 0>>

CurrentName == <<"df_current", 0>>

SnapshotName(step) == <<"snapshots", step>>

\* a handler's local variable, or the temporary of an argument expression
LocalName(name) == <<name, -1>>

IsLocal(x) == x[2] = -1

\* x = <a new object>: a constructor, a read from the data cache, .copy()
BindNew(aliases, x) == {p \in aliases : x \notin p}

\* x = y: x names the object y names
BindTo(aliases, x, y) ==
  IF x = y THEN aliases
  ELSE BindNew(aliases, x)
         \cup {{x, z} : z \in {y} \cup {w \in UNION BindNew(aliases, x) :
                                          {y, w} \in BindNew(aliases, x)}}

\* the handler returns: its locals go out of scope
Return(aliases) == {p \in aliases : \A x \in p : ~IsLocal(x)}

\* app.py:32-34: two DataFrame() calls, an empty dict
aliases_init == {}

\* make_snapshot storing the frame it was handed
make_snapshot_aliases_NoCopy(aliases, df, step) ==
  BindTo(aliases, SnapshotName(step), df)

\* ui_helpers.py:12: snapshots[step] = df.copy()
make_snapshot_aliases(aliases, df, step) ==
  BindNew(aliases, SnapshotName(step))

\* app.py:109-113.  load_raw_data is wrapped in st.cache_data, which hands
\* every caller its own copy of the cached frame
LoadAliases(aliases) ==
  LET a1 == BindNew(aliases, LocalName("df_raw"))
      a2 == BindTo(a1, RawName, LocalName("df_raw"))
      a3 == BindNew(a2, CurrentName)
      a4 == BindNew(a3, LocalName("copy"))
  IN  Return(make_snapshot_aliases(a4, LocalName("copy"), 0))

\* the frame a transform returns: steps 2 and 3 build a new one
\* (data_processing.py:70, 89), the others hand back the argument
TransformAliases(aliases, step_num) ==
  IF step_num \in {2, 3} THEN BindNew(aliases, LocalName("df")) ELSE aliases

\* lines 68-69 of run_step
StoreAliases(aliases, new_step) ==
  BindTo(make_snapshot_aliases(aliases, LocalName("df"), new_step),
         CurrentName, LocalName("df"))

\* run_step (app.py:50-79); ok tells whether the try block completed
run_step_aliases(aliases, step_num, ok) ==
  IF ok
  THEN Return(StoreAliases(
                TransformAliases(BindNew(aliases, LocalName("df")), step_num),
                step_num))
  ELSE aliases

\* app.py:86-87
ResetAliases(aliases) ==
  make_snapshot_aliases(BindNew(aliases, CurrentName), CurrentName, 0)

\* app.py:96
UndoAliases(aliases) == BindNew(aliases, CurrentName)

\* the session with its aliases
Tracked(s, aliases) ==
  [current_step |-> s.current_step,
   df_raw |-> s.df_raw,
   df_current |-> s.df_current,
   snapshots |-> s.snapshots,
   column_mapping |-> s.column_mapping,
   data_loaded |-> s.data_loaded,
   mapped |-> s.mapped,
   missing_threshold |-> s.missing_threshold,
   step_output |-> s.step_output,
   step_summaries |-> s.step_summaries,
   show_custom_dashboard |-> s.show_custom_dashboard,
   aliases |-> aliases]

run_step_tracked(s, step_num, run_all_flag) ==
  Tracked(run_step(s, step_num, run_all_flag),
          run_step_aliases(s.aliases, step_num,
                           StepTransform(s, step_num).ok))

RECURSIVE RunLoopTracked(_, _)
RunLoopTracked(s, step) ==
  IF step > LastStep THEN s
  ELSE RunLoopTracked(run_step_tracked(s, step, TRUE), step + 1)

run_all_steps_tracked(s) ==
  IF ~s.mapped THEN s
  ELSE RunLoopTracked(Tracked(ResetToRaw(s), ResetAliases(s.aliases)), 1)

undo_last_step_tracked(s) ==
  IF UndoOutcome(s) = "ok"
  THEN Tracked(undo_last_step(s), UndoAliases(s.aliases))
  ELSE s

InitRefs ==
  /\ session_state = Tracked(init_state, aliases_init)
  /\ last = Event("init", 0, "ok", <<>>, init_state)
  /\ clicks = 0

LoadTracked(df_raw) ==
  /\ Tick
  /\ SidebarControls(session_state)
  /\ session_state' =
       IF IsEmpty(df_raw) THEN session_state
       ELSE Tracked(LoadRawData(session_state, df_raw),
                    LoadAliases(session_state.aliases))
  /\ last' = Event("load", 0, IF IsEmpty(df_raw) THEN "error" ELSE "ok",
                   <<>>, session_state)

StepClickTracked(step_num) ==
  /\ Tick
  /\ RunButton(session_state, step_num)
  /\ session_state' =
       RerunAfterClick(run_step_tracked(session_state, step_num, FALSE),
                       step_num)
  /\ last' = Event("run_step", step_num,
                   IF StepTransform(session_state, step_num).ok THEN "ok"
                   ELSE "error",
                   <<Call(session_state, step_num, FALSE)>>, session_state)

RunAllTracked ==
  /\ Tick
  /\ SidebarControls(session_state)
  /\ session_state.data_loaded
  /\ session_state' = run_all_steps_tracked(session_state)
  /\ last' = IF ~session_state.mapped
             THEN Event("run_all", 0, "error", <<>>, session_state)
             ELSE Event("run_all", 0, "ok",
                        LoopCalls(ResetToRaw(session_state), 1),
                        session_state)

UndoTracked ==
  /\ Tick
  /\ SidebarControls(session_state)
  /\ session_state.data_loaded
  /\ session_state' = undo_last_step_tracked(session_state)
  /\ last' = Event("undo", 0, UndoOutcome(session_state), <<>>,
                   session_state)

NextRefs ==
  \/ \E df_raw \in LoadResults : LoadTracked(df_raw)
  \/ \E draft \in DraftsFor(session_state.df_raw) : ConfirmMapping(draft)
  \/ \E step_num \in Steps : StepClickTracked(step_num)
  \/ RunAllTracked
  \/ UndoTracked
  \/ \E t \in Thresholds : SetThreshold(t)
  \/ OpenDashboard
  \/ BackToPipeline

SpecRefs == InitRefs /\ [][NextRefs]_vars

\* ------------------------------------------------------------------------
\* Properties
\* ------------------------------------------------------------------------
\* every run_step call of the last handler succeeded
AllCallsOk == \A i \in DOMAIN last.calls : last.calls[i].ok

\* the first run_step call of the last handler that failed
FirstFailed ==
  CHOOSE i \in DOMAIN last.calls :
    ~last.calls[i].ok /\ \A j \in 1..(i - 1) : last.calls[j].ok

\* C1: undo() right after a successful run_step(n) restores the working
\* Dataset that existed just before run_step(n) and leaves Step Pointer at
\* n-1, for every n the step cards allow.
C1_UndoRestoresPreStep ==
  [][(last.op = "run_step" /\ last.outcome = "ok" /\ last'.op = "undo")
       => /\ session_state'.df_current = last.df_before
          /\ session_state'.current_step = last.arg - 1]_vars

RECURSIVE ManualSteps(_, _)
\* the step buttons 1..7 clicked in order
ManualSteps(s, step) ==
  IF step > LastStep THEN s
  ELSE ManualSteps(ClickRunStep(s, step), step + 1)

\* C2: when no step fails, run_all() ends with Step Pointer = 7 and
\* Snapshot[7] equal to the Dataset that steps 1..7 run by hand in order
\* produce from the raw-loaded Dataset with the same mapping and threshold.
C2_RunAllEqualsManualSteps ==
  (last.op = "run_all" /\ last.outcome = "ok" /\ AllCallsOk)
    => /\ session_state.current_step = LastStep
       /\ Has(session_state.snapshots, LastStep)
       /\ session_state.snapshots[LastStep] =
            ManualSteps(FreshSession(session_state.df_raw,
                                     session_state.column_mapping,
                                     session_state.missing_threshold),
                        1).df_current

\* run_all started from a session whose working Dataset was no longer the
\* raw one, and no step failed
C2_Witness ==
  /\ last.op = "run_all" /\ last.outcome = "ok" /\ AllCallsOk
  /\ last.df_before # session_state.df_raw

\* C3: run_all() stops at the first failing step k: no run_step(j) with
\* j > k is invoked and Step Pointer ends at k-1.
C3_RunAllStopsAtFirstFailure ==
  (last.op = "run_all" /\ last.outcome = "ok" /\ ~AllCallsOk)
    => /\ \A i \in DOMAIN last.calls :
            last.calls[i].step <= last.calls[FirstFailed].step
       /\ session_state.current_step = last.calls[FirstFailed].step - 1

\* C4: a run_step(n) whose transform raises leaves Step Pointer, the working
\* Dataset, the Snapshot Store and the Summary map as they were, and returns
\* with an error marker in the step output.
C4_FailedStepChangesNothing ==
  [][(last'.op = "run_step" /\ last'.outcome = "error")
       => /\ session_state'.current_step = session_state.current_step
          /\ session_state'.df_current = session_state.df_current
          /\ session_state'.snapshots = session_state.snapshots
          /\ session_state'.step_summaries = session_state.step_summaries
          /\ Has(last'.calls[1].output, "error")]_vars

\* a step button was clicked and its transform raised
C4_Witness == last.op = "run_step" /\ last.outcome = "error"

\* C5: a successful run_step(n) stores the transform's Summary under n,
\* writes the transform's output to Snapshot[n] and to the working Dataset,
\* and sets Step Pointer to n, whatever Step Pointer was.
C5_SuccessfulStepEffects ==
  [][(last'.op = "run_step" /\ last'.outcome = "ok")
       => LET n == last'.arg
              r == StepTransform(session_state, n)
          IN  /\ Has(session_state'.step_summaries, n)
              /\ session_state'.step_summaries[n] = r.summary
              /\ Has(session_state'.snapshots, n)
              /\ session_state'.snapshots[n] = r.df
              /\ session_state'.df_current = r.df
              /\ session_state'.current_step = n]_vars

\* step 3 ran as a forward jump (step 2 was never run) and changed the data
C5_Witness ==
  /\ last.op = "run_step" /\ last.outcome = "ok" /\ last.arg = 3
  /\ ~Has(session_state.snapshots, 2)
  /\ session_state.df_current # last.df_before

\* the highest index present in the Snapshot Store
HighestSnapshot(s) ==
  CHOOSE k \in DOMAIN s.snapshots : \A j \in DOMAIN s.snapshots : j <= k

\* C6: after a raw load, Step Pointer is in 0..7 and does not exceed the
\* highest index present in the Snapshot Store.
C6_PointerWithinSnapshots ==
  session_state.data_loaded
    => /\ session_state.current_step \in 0..LastStep
       /\ DOMAIN session_state.snapshots # {}
       /\ session_state.current_step <= HighestSnapshot(session_state)

\* undo moved Step Pointer below the highest snapshot kept in the store
C6_Witness ==
  /\ session_state.data_loaded
  /\ last.op = "undo" /\ last.outcome = "ok"
  /\ session_state.current_step < HighestSnapshot(session_state)

\* C7: undo() at Step Pointer 0 reports the at-initial-state condition and
\* changes nothing in the session.
C7_UndoAtInitialState ==
  [][(last'.op = "undo" /\ session_state.current_step = 0)
       => /\ last'.outcome = "warning"
          /\ session_state' = session_state]_vars

\* undo was clicked at Step Pointer 0 after the mapping was applied
C7_Witness ==
  /\ last.op = "undo" /\ last.outcome = "warning"
  /\ session_state.mapped /\ session_state.current_step = 0

\* C8: whenever Step Pointer > 0 the Snapshot Store holds
\* Snapshot[Step Pointer - 1], so undo() never raises.
C8_UndoNeverRaises ==
  /\ session_state.current_step > 0
       => Has(session_state.snapshots, session_state.current_step - 1)
  /\ last.op = "undo" => last.outcome # "KeyError"

\* C9: while the mapping is not applied Step Pointer is 0, no step button
\* is offered, and run_all and undo change neither the working Dataset nor
\* Step Pointer; only a raw load does, and it enters state 0.
C9_NoTransitionBeforeMapping ==
  [][~session_state.mapped
       => /\ session_state.current_step = 0
          /\ last'.op # "run_step"
          /\ last'.op \in {"run_all", "undo"}
               => /\ session_state'.df_current = session_state.df_current
                  /\ session_state'.current_step = 0
          /\ (\/ session_state'.df_current # session_state.df_current
              \/ session_state'.current_step # session_state.current_step)
               => last'.op = "load" /\ session_state'.current_step = 0
          /\ ~session_state'.mapped => session_state'.current_step = 0]_vars

\* run_all was clicked on a loaded file whose mapping is not applied
C9_Witness ==
  /\ last.op = "run_all" /\ last.outcome = "error"
  /\ session_state.data_loaded /\ ~session_state.mapped

\* C10: Apply Mapping rejects a draft if and only if one of Date, Amount,
\* Order ID has no source column selected in it.
C10_RejectedIffCriticalUnselected ==
  last.op = "apply_mapping" => (last.outcome = "rejected" <=> last.arg # {})

\* C11: every confirmed Column Mapping is a bijection between the uploaded
\* column names it maps and the canonical names they map to: its keys are
\* columns of the uploaded file, its values are canonical names, and no
\* canonical name has two source columns (a key has one value, the mapping
\* being a dict).
C11_MappingIsBijection ==
  session_state.mapped
    => /\ DOMAIN session_state.column_mapping
            \subseteq Range(session_state.df_raw.cols)
       /\ Range(session_state.column_mapping) \subseteq Range(REQUIRED_COLS)
       /\ \A a, b \in DOMAIN session_state.column_mapping :
            session_state.column_mapping[a] = session_state.column_mapping[b]
              => a = b

\* a mapping was confirmed that sends an uploaded name to a canonical name
\* different from it
C11_Witness ==
  /\ session_state.mapped
  /\ last.op = "apply_mapping" /\ last.outcome = "ok"
  /\ \E k \in DOMAIN session_state.column_mapping :
       session_state.column_mapping[k] # k

\* C12: once a mapping is confirmed, run_step, run_all, undo and the
\* dashboard buttons leave the Column Mapping and the mapped flag as they
\* were, and a mapping is confirmed only in a state with Step Pointer = 0.
C12_MappingFixedOnceConfirmed ==
  [][/\ (session_state.mapped
         /\ last'.op \in {"run_step", "run_all", "undo", "open_dashboard",
                          "back_to_pipeline"})
        => /\ session_state'.column_mapping = session_state.column_mapping
           /\ session_state'.mapped
     /\ (last'.op = "apply_mapping" /\ last'.outcome = "ok")
        => /\ session_state.current_step = 0
           /\ session_state'.current_step = 0]_vars

\* a mapping was confirmed for a reloaded file after the pipeline had
\* advanced on a file with other headers
C12_Witness ==
  /\ last.op = "apply_mapping" /\ last.outcome = "ok"
  /\ Has(session_state.snapshots, 1)
  /\ session_state.snapshots[1].cols # session_state.df_raw.cols
  /\ session_state.current_step = 0

\* C13: for every dataset and every integer threshold t in 0..100, step 2
\* removes exactly the columns whose null percentage (nulls * 100 / rows) is
\* strictly greater than t, keeps every other column with its data, and
\* leaves the row count unchanged.
C13_DropsExactlyAboveThreshold ==
  (last.op = "run_step" /\ last.arg = 2 /\ last.outcome = "ok")
    => /\ session_state.df_current =
            SelectCols(last.df_before,
                       {j \in DOMAIN last.df_before.cols :
                          ~(NullCount(last.df_before, j) * 100
                              > session_state.missing_threshold
                                  * NRows(last.df_before))})
       /\ NRows(session_state.df_current) = NRows(last.df_before)
       /\ session_state.step_summaries[2].rows_before
            = session_state.step_summaries[2].rows_after

\* the steps whose transform hands back its input
PassThroughSteps == {1, 4, 5, 6, 7}

\* session t is session s after a pass-through run of step n: the working
\* Dataset is the same, the pointer is n, Snapshot[n] and Summary[n] are
\* written, and nothing else of the session differs (the step-output marker
\* of the page apart)
PassThroughRun(s, t, n) ==
  /\ t.df_current = s.df_current
  /\ t.current_step = n
  /\ t.snapshots = DictSet(s.snapshots, n, s.df_current)
  /\ DOMAIN t.step_summaries = DOMAIN s.step_summaries \cup {n}
  /\ \A k \in DOMAIN s.step_summaries \ {n} :
       t.step_summaries[k] = s.step_summaries[k]
  /\ [t EXCEPT !.current_step = s.current_step,
               !.snapshots = s.snapshots,
               !.step_summaries = s.step_summaries,
               !.step_output = s.step_output] = s

RenamedInput == RenameByReverseMap(last.df_before, session_state.column_mapping)

\* C15: step 3 renames from source to canonical: for every pair (uploaded
\* name s -> canonical name c) of the confirmed mapping with s a column of
\* the input Dataset, the output has a column named c, and none named s when
\* s differs from c and is no canonical name of the mapping.
C15_RenamesSourceToCanonical ==
  (last.op = "run_step" /\ last.arg = 3 /\ last.outcome = "ok")
    => \A s \in DOMAIN session_state.column_mapping :
         HasCol(last.df_before, s)
           => /\ HasCol(session_state.df_current,
                        session_state.column_mapping[s])
              /\ s \notin Range(session_state.column_mapping)
                   => ~HasCol(session_state.df_current, s)

\* the rows of the renamed input with an Amount and a Date that parses
ParsedRows(df) ==
  {i \in DOMAIN df.rows :
     /\ \A j \in ColIdx(df, "Amount") : df.rows[i][j] # NaN
     /\ \A j \in ColIdx(df, "Date") : to_datetime(df.rows[i][j]) # NaT}

\* the columns step 3 neither converts nor adds
Untouched(df) ==
  SelectCols(df, {j \in DOMAIN df.cols :
                    df.cols[j] \notin {"Date", "B2B", "Month", "Year",
                                       "DayOfWeek", "New", "PendingS"}})

\* C16: when the canonical Date column is present, step 3 returns exactly
\* the input rows whose Amount is non-null and whose Date parses as
\* month-day-2digit-year, in input order, with Date stored as a parsed date
\* and the columns Month, Year and DayOfWeek added.
C16_KeepsParsedRows ==
  (last.op = "run_step" /\ last.arg = 3 /\ HasCol(RenamedInput, "Date"))
    => /\ last.outcome = "ok"
       /\ Untouched(session_state.df_current)
            = Untouched(SelectRows(RenamedInput, ParsedRows(RenamedInput)))
       /\ \A name \in {"Date", "Month", "Year", "DayOfWeek"} :
            HasCol(session_state.df_current, name)
       /\ \A i \in DOMAIN session_state.df_current.rows :
            \A j \in ColIdx(session_state.df_current, "Date") :
              \E dt \in {to_datetime(RenamedInput.rows[k][j]) :
                            k \in ParsedRows(RenamedInput)} :
                session_state.df_current.rows[i][j] = DateCell(dt)

\* C17: if the canonical Date column is absent after the mapping is
\* applied, step 3 does not raise and returns a Dataset equal to its input
\* (same column names, same rows) together with an explanatory note.
C17_SkipReturnsInput ==
  (last.op = "run_step" /\ last.arg = 3 /\ ~HasCol(RenamedInput, "Date"))
    => /\ last.outcome = "ok"
       /\ session_state.df_current = last.df_before
       /\ session_state.step_summaries[3].note = "skipped"

\* C18: rendering the custom dashboard under any combination of filter
\* selections (date range, categories, sizes, fulfilment methods, B2B-only)
\* leaves the working Dataset, the Snapshot Store and Step Pointer unchanged.
C18_DashboardReadOnly ==
  [][last'.op = "render_dashboard"
       => /\ session_state'.df_current = session_state.df_current
          /\ session_state'.snapshots = session_state.snapshots
          /\ session_state'.current_step = session_state.current_step]_vars

\* the dashboard was drawn with filters that left fewer rows than the
\* working Dataset has
C18_Witness ==
  /\ last.op = "render_dashboard" /\ last.outcome = "ok"
  /\ last.arg.filters.b2b_only
  /\ last.arg.filters.cats # Unique(session_state.df_current, "Category")
  /\ NRows(last.arg.shown) > 0
  /\ NRows(last.arg.shown) < NRows(session_state.df_current)

FlagOnlyAtFinalStep ==
  session_state.show_custom_dashboard
    => session_state.current_step = LastStep

\* C20: get_gemini_response never raises: for every credential list,
\* the empty one included, it returns a text; no credential is tried twice
\* in one call; and when every credential of the list has failed it returns
\* the fixed failure string.
C20_AIResponseNeverRaises ==
  last.op = "get_gemini_response"
    => /\ last.outcome = "returned"
       /\ last.text # None
       /\ \A i, j \in DOMAIN last.calls :
            last.calls[i] = last.calls[j] => i = j
       /\ (\A k \in DOMAIN session_state.API_KEYS :
             session_state.API_KEYS[k] = "bad")
            => last.text = ConfigureFailed

\* C21: in every state after a raw load, failed steps inside run_all
\* included, the Snapshot Store holds Snapshot[Step Pointer] and the working
\* Dataset equals it by value.
C21_WorkingEqualsPointerSnapshot ==
  session_state.data_loaded
    => /\ Has(session_state.snapshots, session_state.current_step)
       /\ session_state.snapshots[session_state.current_step] =
            session_state.df_current

\* run_all went on past a step that failed and ended at the last step
C21_Witness ==
  /\ last.op = "run_all" /\ last.outcome = "ok" /\ ~AllCallsOk
  /\ session_state.current_step = LastStep
  /\ Has(session_state.snapshots, LastStep)

\* the names of the session that hold a DataFrame
SessionNames(s) ==
  {RawName, CurrentName} \cup {SnapshotName(k) : k \in DOMAIN s.snapshots}

\* C22: in every reachable state no two of df_raw, df_current and the
\* stored snapshots name the same object: load, run_step, run_all and undo
\* store or restore copies.
C22_NoAliasing ==
  \A x, y \in SessionNames(session_state) :
    {x, y} \in session_state.aliases => x = y

\* an undo restored a snapshot after run_all had stored all eight
C22_Witness ==
  /\ last.op = "undo" /\ last.outcome = "ok"
  /\ DOMAIN session_state.snapshots = 0..LastStep
  /\ session_state.current_step = LastStep - 1

\* Snapshot[i] as a sequence: empty while the store has no entry i
SnapshotAt(s, i) == IF Has(s.snapshots, i) THEN <<s.snapshots[i]>> ELSE <<>>

\* the handler recorded in e made a run_step(i) call that succeeded
SucceededCall(e, i) ==
  \E c \in DOMAIN e.calls : e.calls[c].step = i /\ e.calls[c].ok

\* C23: Snapshot[i] changes only in a handler that made a successful
\* run_step(i) call, or for i = 0 in a raw load or run_all; undo, a failed
\* run_step and run_step(j) with j # i leave it as it was, entries above a
\* re-run step included.
C23_SnapshotChangedOnlyByItsStep ==
  [][\A i \in 0..LastStep :
       SnapshotAt(session_state', i) # SnapshotAt(session_state, i)
         => \/ SucceededCall(last', i)
            \/ /\ i = 0
               /\ last'.op \in {"load", "run_all"}
               /\ last'.outcome = "ok"]_vars

\* run_all re-ran the steps below a step that failed, whose snapshot of an
\* earlier run is still stored
C23_Witness ==
  /\ last.op = "run_all" /\ last.outcome = "ok" /\ ~AllCallsOk
  /\ last.calls[FirstFailed].step > 1
  /\ Has(session_state.snapshots, last.calls[FirstFailed].step)

\* what run_all leaves: the working Dataset, the Step Pointer, the snapshots
RunAllResult(s) ==
  [df_current |-> s.df_current,
   current_step |-> s.current_step,
   snapshots |-> s.snapshots]

\* C24: a run_all in which no step fails, started from any mapped state,
\* ends with the working Dataset, Step Pointer (7) and Snapshots 0..7 that
\* run_all gives right after the load and the mapping with the same raw
\* Dataset, mapping and threshold; a second run_all in a row changes none
\* of them.
C24_RunAllIdempotent ==
  [][(/\ last'.op = "run_all" /\ last'.outcome = "ok"
      /\ \A i \in DOMAIN last'.calls : last'.calls[i].ok)
       => /\ session_state'.current_step = LastStep
          /\ DOMAIN session_state'.snapshots = 0..LastStep
          /\ RunAllResult(session_state') =
               RunAllResult(run_all_steps(
                 FreshSession(session_state.df_raw,
                              session_state.column_mapping,
                              session_state.missing_threshold)))
          /\ RunAllResult(run_all_steps(session_state')) =
               RunAllResult(session_state')]_vars

\* run_all without a failure, started where the working Dataset already
\* was the one it ends with and no longer the raw one
C24_Witness ==
  /\ last.op = "run_all" /\ last.outcome = "ok" /\ AllCallsOk
  /\ last.df_before = session_state.df_current
  /\ session_state.df_current # session_state.df_raw

\* C25: right after a raw load that replaced the dataset the Snapshot Store
\* holds nothing but Snapshot[0] of the loaded raw Dataset: no snapshot with
\* index >= 1 of an earlier dataset is left for undo to restore.
C25_LoadLeavesOnlyRawSnapshot ==
  (last.op = "load" /\ last.outcome = "ok")
    => /\ DOMAIN session_state.snapshots = {0}
       /\ session_state.snapshots[0] = session_state.df_raw
====
